---- MODULE Spec2Model ----
(***************************************************************************)
(* Model of dandi.files: the traversal find_dandi_files, the factory       *)
(* function dandi_file, DandiFileType.classify, the two factories and      *)
(* find_bids_dataset_description (src/dandi/files/__init__.py).            *)
(*                                                                         *)
(* A filesystem path is a sequence of name components; a name is a string. *)
(* The filesystem is a function from the candidate paths to a kind:        *)
(*   "absent", "file", "dir", "linkdir" (symbolic link to a directory),    *)
(*   "broken" (dangling symbolic link).                                    *)
(* Every constructed entity gets an identity: its index in objs.           *)
(***************************************************************************)
EXTENDS Integers, Sequences, FiniteSets, TLC

(***************************************************************************)
(* Bounds of the model.                                                    *)
(***************************************************************************)
MaxNodes == 4
MaxStarts == 2
MaxCalls == 2

(***************************************************************************)
(* Names from dandi.consts.                                                *)
(***************************************************************************)
BIDS_DATASET_DESCRIPTION == "dataset_description.json"
dandiset_metadata_file == "dandiset.yaml"
ZARR_EXTENSIONS == {".ngff", ".zarr"}
VIDEO_FILE_EXTENSIONS == {".mp4", ".avi", ".wmv", ".mov", ".flv", ".mkv"}

None == << >>
NoRef == 0
NoPathField == "<no path>"

(***************************************************************************)
(* pathlib.PurePath, on sequences of components.                           *)
(***************************************************************************)
Name(p) == p[Len(p)]

Parent(p) == SubSeq(p, 1, Len(p) - 1)

Join(p, name) == Append(p, name)

StartsWith(s, pre) == Len(s) >= Len(pre) /\ SubSeq(s, 1, Len(pre)) = pre

RFindDot(s) ==
  LET I == {k \in 1..Len(s) : SubSeq(s, k, k) = "."}
  IN  IF I = {} THEN 0 ELSE CHOOSE k \in I : \A j \in I : j <= k

Suffix(name) ==
  LET k == RFindDot(name)
  IN  IF 1 < k /\ k < Len(name) THEN SubSeq(name, k, Len(name)) ELSE ""

IsRelativeTo(p, other) ==
  Len(other) <= Len(p) /\ SubSeq(p, 1, Len(other)) = other

RelativeTo(p, other) == SubSeq(p, Len(other) + 1, Len(p))

RECURSIVE AsPosix(_)
AsPosix(rel) ==
  IF rel = << >> THEN "."
  ELSE IF Len(rel) = 1 THEN rel[1]
  ELSE rel[1] \o "/" \o AsPosix(Tail(rel))

(***************************************************************************)
(* The candidate paths of the file tree, in a fixed listing order.         *)
(***************************************************************************)
DS == <<"ds">>
SUBD == <<"ds", "sub">>
ZARRD == <<"ds", "z.zarr">>
HID == <<"ds", ".h">>

Universe ==
  << DS,
     <<"ds", "dandiset.yaml">>,
     <<"ds", "dataset_description.json">>,
     SUBD,
     ZARRD,
     HID,
     <<"ds", "sub", "dataset_description.json">>,
     <<"ds", "sub", "dandiset.yaml">>,
     <<"ds", "sub", "a.nwb">>,
     <<"ds", "z.zarr", "v.mp4">>,
     <<"ds", ".h", "a.nwb">>,
     <<"other">> >>

UniverseSet == {Universe[k] : k \in 1..Len(Universe)}

Fixed == {DS, <<"other">>}

Optional == UniverseSet \ Fixed

BaseKind(p) ==
  IF p \in {DS, SUBD, ZARRD, HID} THEN "dir" ELSE "file"

AltKinds(p) ==
  IF p = ZARRD THEN {"dir", "linkdir"}
  ELSE IF p = Join(DS, BIDS_DATASET_DESCRIPTION) THEN {"file", "dir", "broken"}
  ELSE {BaseKind(p)}

MultiKind == {p \in Optional : Cardinality(AltKinds(p)) > 1}

ParentClosed(S) ==
  \A p \in S : Len(p) > 1 => Parent(p) \in S \cup Fixed

PresentSets ==
  {S \in SUBSET Optional : Cardinality(S) <= MaxNodes /\ ParentClosed(S)}

KindChoices(S) ==
  {k \in [MultiKind -> {"file", "dir", "linkdir", "broken"}] :
     \A p \in MultiKind :
       k[p] \in (IF p \in S THEN AltKinds(p) ELSE {BaseKind(p)})}

TreeOf(S, k) ==
  [p \in UniverseSet |->
     IF p \in Fixed THEN BaseKind(p)
     ELSE IF p \notin S THEN "absent"
     ELSE IF p \in MultiKind THEN k[p]
     ELSE BaseKind(p)]

Trees == UNION {{TreeOf(S, k) : k \in KindChoices(S)} : S \in PresentSets}

Roots == {None, DS, ZARRD}

VARIABLES
  fs,               \* the file tree
  rev,              \* listing order of iterdir
  paths,            \* *paths
  dandiset_path,    \* dandiset_path, or None
  allow_all,
  include_metadata,
  pc,               \* "seed", "loop", "done", "raised" (find_dandi_files);
                    \* "context", "call", "returned" (a call of dandi_file);
                    \* "locate", "none" (find_bids_dataset_description);
                    \* "govern", "factory" (calls of a BIDSFileFactory);
                    \* "classify" (a call of classify)
  i,                \* position of the seeding loop in paths
  path_queue,       \* deque of <<p, bidsdd>>
  objs,             \* every entity constructed so far; identity = index
  dataset_files,    \* dataset_files[id]: ids appended to description id
  yielded,          \* ids yielded so far
  popped,           \* the pairs <<p, bidsdd>> popped so far
  err,              \* the exception that ended the run, or "none"
  first             \* the outcome of an earlier run on the same tree and
                    \* paths, for the comparison of two runs; else NoRun

vars == <<fs, rev, paths, dandiset_path, allow_all, include_metadata,
          pc, i, path_queue, objs, dataset_files, yielded, popped, err,
          first>>

\* what no step of a run changes
inputs == <<fs, rev, paths, dandiset_path, allow_all, include_metadata,
            first>>

NoRun ==
  [ran |-> FALSE, pc |-> "", err |-> "none", popped |-> << >>,
   objs |-> << >>, dataset_files |-> << >>, yielded |-> << >>]

(***************************************************************************)
(* pathlib.Path: the filesystem queries.                                   *)
(***************************************************************************)
Kind(p) == IF p \in UniverseSet THEN fs[p] ELSE "absent"

is_dir(p) == Kind(p) \in {"dir", "linkdir"}

is_file(p) == Kind(p) = "file"

is_symlink(p) == Kind(p) \in {"linkdir", "broken"}

exists(p) == Kind(p) \in {"file", "dir", "linkdir"}

IsChild(q, p) == Len(q) = Len(p) + 1 /\ IsRelativeTo(q, p)

Reverse(s) == [k \in 1..Len(s) |-> s[Len(s) + 1 - k]]

iterdir(p) ==
  LET Sel(q) == IsChild(q, p) /\ Kind(q) # "absent"
      listing == SelectSeq(Universe, Sel)
  IN  IF rev THEN Reverse(listing) ELSE listing

any_iterdir(p) == iterdir(p) # << >>

(***************************************************************************)
(* Entities.  ref is the identity of the governing description (the weak   *)
(* reference bids_dataset_description_ref), NoRef when there is none.      *)
(***************************************************************************)
Entity(cls, filepath, path, ref) ==
  [cls |-> cls, filepath |-> filepath, path |-> path, ref |-> ref]

NoEntity == Entity("", << >>, "", NoRef)

BIDSClasses == {"NWBBIDSAsset", "ZarrBIDSAsset", "GenericBIDSAsset"}

Raise(exc) ==
  [out |-> "raise", exc |-> exc, id |-> 0, obj |-> NoEntity, append |-> 0]

Same(id) ==
  [out |-> "same", exc |-> "none", id |-> id, obj |-> NoEntity, append |-> 0]

New(obj, append) ==
  [out |-> "new", exc |-> "none", id |-> 0, obj |-> obj, append |-> append]

\* classify looking at the extension of a directory before its content
classify_ExtensionFirst(path) ==
  IF is_dir(path) THEN
    IF Suffix(Name(path)) \in ZARR_EXTENSIONS THEN "ZARR"
    ELSE "UnknownAssetError"
  ELSE IF Name(path) = BIDS_DATASET_DESCRIPTION THEN "BIDS_DATASET_DESCRIPTION"
  ELSE IF Suffix(Name(path)) = ".nwb" THEN "NWB"
  ELSE IF Suffix(Name(path)) \in VIDEO_FILE_EXTENSIONS THEN "VIDEO"
  ELSE "GENERIC"

(***************************************************************************)
(* DandiFileType.classify                                                  *)
(***************************************************************************)
classify(path) ==
  IF is_dir(path) THEN
    IF ~any_iterdir(path) THEN "UnknownAssetError"
    ELSE IF Suffix(Name(path)) \in ZARR_EXTENSIONS THEN "ZARR"
    ELSE "UnknownAssetError"
  ELSE IF Name(path) = BIDS_DATASET_DESCRIPTION THEN "BIDS_DATASET_DESCRIPTION"
  ELSE IF Suffix(Name(path)) = ".nwb" THEN "NWB"
  ELSE IF Suffix(Name(path)) \in VIDEO_FILE_EXTENSIONS THEN "VIDEO"
  ELSE "GENERIC"

DandiFileFactory_CLASSES(ftype) ==
  CASE ftype = "NWB" -> "NWBAsset"
    [] ftype = "ZARR" -> "ZarrAsset"
    [] ftype = "VIDEO" -> "VideoAsset"
    [] ftype = "GENERIC" -> "GenericAsset"
    [] ftype = "BIDS_DATASET_DESCRIPTION" -> "BIDSDatasetDescriptionAsset"

BIDSFileFactory_CLASSES(ftype) ==
  CASE ftype = "NWB" -> "NWBBIDSAsset"
    [] ftype = "ZARR" -> "ZarrBIDSAsset"
    [] ftype = "VIDEO" -> "GenericBIDSAsset"
    [] ftype = "GENERIC" -> "GenericBIDSAsset"

DandiFileFactory(filepath, path) ==
  LET ftype == classify(filepath)
  IN  IF ftype = "UnknownAssetError" THEN Raise("UnknownAssetError")
      ELSE New(Entity(DandiFileFactory_CLASSES(ftype), filepath, path, NoRef),
               NoRef)

\* BIDSFileFactory without the identity test: a description is built anew
BIDSFileFactory_AlwaysFresh(bids_dataset_description, filepath, path) ==
  LET ftype == classify(filepath)
  IN  IF ftype = "UnknownAssetError" THEN Raise("UnknownAssetError")
      ELSE IF ftype = "BIDS_DATASET_DESCRIPTION" THEN
        New(Entity("BIDSDatasetDescriptionAsset", filepath, path, NoRef),
            NoRef)
      ELSE New(Entity(BIDSFileFactory_CLASSES(ftype), filepath, path,
                      bids_dataset_description),
               bids_dataset_description)

\* BIDSFileFactory that collects a nested description like any other file
BIDSFileFactory_CollectAll(bids_dataset_description, filepath, path) ==
  LET ftype == classify(filepath)
  IN  IF ftype = "UnknownAssetError" THEN Raise("UnknownAssetError")
      ELSE IF ftype = "BIDS_DATASET_DESCRIPTION" THEN
        IF filepath = objs[bids_dataset_description].filepath
        THEN Same(bids_dataset_description)
        ELSE New(Entity("BIDSDatasetDescriptionAsset", filepath, path, NoRef),
                 bids_dataset_description)
      ELSE New(Entity(BIDSFileFactory_CLASSES(ftype), filepath, path,
                      bids_dataset_description),
               bids_dataset_description)

BIDSFileFactory(bids_dataset_description, filepath, path) ==
  LET ftype == classify(filepath)
  IN  IF ftype = "UnknownAssetError" THEN Raise("UnknownAssetError")
      ELSE IF ftype = "BIDS_DATASET_DESCRIPTION" THEN
        IF filepath = objs[bids_dataset_description].filepath
        THEN Same(bids_dataset_description)
        ELSE New(Entity("BIDSDatasetDescriptionAsset", filepath, path, NoRef),
                 NoRef)
      ELSE New(Entity(BIDSFileFactory_CLASSES(ftype), filepath, path,
                      bids_dataset_description),
               bids_dataset_description)

\* dandi_file giving every entity its file name as path, with a root too
dandi_file_NameAsPath(filepath, root, bids_dataset_description) ==
  IF root # None /\ ~IsRelativeTo(filepath, root)
  THEN Raise("ValueError: not relative")
  ELSE
    LET path == Name(filepath)
    IN  IF root # None /\ filepath = root
        THEN Raise("ValueError: Dandi file path cannot equal Dandiset path")
        ELSE IF is_file(filepath) /\ path = dandiset_metadata_file
        THEN New(Entity("DandisetMetadataFile", filepath, NoPathField, NoRef),
                 NoRef)
        ELSE IF bids_dataset_description = NoRef
        THEN DandiFileFactory(filepath, path)
        ELSE BIDSFileFactory(bids_dataset_description, filepath, path)

\* dandi_file recognising dandiset.yaml by the file's name, not by its path
dandi_file_ByName(filepath, root, bids_dataset_description) ==
  IF root # None /\ ~IsRelativeTo(filepath, root)
  THEN Raise("ValueError: not relative")
  ELSE
    LET path == IF root # None THEN AsPosix(RelativeTo(filepath, root))
                ELSE Name(filepath)
    IN  IF root # None /\ path = "."
        THEN Raise("ValueError: Dandi file path cannot equal Dandiset path")
        ELSE IF is_file(filepath) /\ Name(filepath) = dandiset_metadata_file
        THEN New(Entity("DandisetMetadataFile", filepath, NoPathField, NoRef),
                 NoRef)
        ELSE IF bids_dataset_description = NoRef
        THEN DandiFileFactory(filepath, path)
        ELSE BIDSFileFactory(bids_dataset_description, filepath, path)

(***************************************************************************)
(* dandi_file                                                              *)
(***************************************************************************)
dandi_file(filepath, root, bids_dataset_description) ==
  IF root # None /\ ~IsRelativeTo(filepath, root)
  THEN Raise("ValueError: not relative")
  ELSE
    LET path == IF root # None THEN AsPosix(RelativeTo(filepath, root))
                ELSE Name(filepath)
    IN  IF root # None /\ path = "."
        THEN Raise("ValueError: Dandi file path cannot equal Dandiset path")
        ELSE IF is_file(filepath) /\ path = dandiset_metadata_file
        THEN New(Entity("DandisetMetadataFile", filepath, NoPathField, NoRef),
                 NoRef)
        ELSE IF bids_dataset_description = NoRef
        THEN DandiFileFactory(filepath, path)
        ELSE BIDSFileFactory(bids_dataset_description, filepath, path)

(***************************************************************************)
(* The effect of a call of dandi_file on the heap: the entity it returns   *)
(* and the collections after the call.                                     *)
(***************************************************************************)
ResultId(res) == IF res.out = "same" THEN res.id ELSE Len(objs) + 1

ObjsAfter(res) == IF res.out = "new" THEN Append(objs, res.obj) ELSE objs

FilesAfter(res) ==
  IF res.out = "new"
  THEN LET grown == Append(dataset_files, << >>)
       IN  IF res.append = NoRef THEN grown
           ELSE [grown EXCEPT ![res.append] = Append(@, Len(objs) + 1)]
  ELSE dataset_files

(***************************************************************************)
(* find_dandi_files                                                        *)
(***************************************************************************)
OUTSIDE == <<"other">>

StartCandidates ==
  {DS, SUBD, ZARRD, <<"ds", "z.zarr", "v.mp4">>, <<"ds", ".h", "a.nwb">>,
   OUTSIDE}

Rank(p) == CHOOSE k \in 1..Len(Universe) : Universe[k] = p

\* The starting paths exist, are pairwise different and are given in the
\* listing order of the tree (an ancestor before its descendants); the path
\* outside the tree is given only with a root, at any position.
StartLists(tree, root) ==
  {s \in UNION {[1..n -> StartCandidates] : n \in 1..MaxStarts} :
     \A k \in 1..Len(s) :
       /\ tree[s[k]] # "absent"
       /\ s[k] = OUTSIDE => root # None
       /\ \A j \in 1..(k - 1) :
            /\ s[j] # s[k]
            /\ s[j] # OUTSIDE /\ s[k] # OUTSIDE => Rank(s[j]) < Rank(s[k])}

Init ==
  /\ fs \in Trees
  /\ rev \in BOOLEAN
  /\ dandiset_path \in {r \in Roots : r = None \/ fs[r] # "absent"}
  /\ paths \in StartLists(fs, dandiset_path)
  /\ allow_all \in BOOLEAN
  /\ include_metadata \in BOOLEAN
  /\ pc = "seed"
  /\ i = 1
  /\ path_queue = << >>
  /\ objs = << >>
  /\ dataset_files = << >>
  /\ yielded = << >>
  /\ popped = << >>
  /\ err = "none"
  /\ first = NoRun

\* SeedPath without the check of the path against dandiset_path
SeedPath_Unchecked ==
  /\ pc = "seed"
  /\ i <= Len(paths)
  /\ path_queue' = Append(path_queue, <<paths[i], NoRef>>)
  /\ i' = i + 1
  /\ UNCHANGED <<pc, err>>
  /\ UNCHANGED <<inputs, objs, dataset_files, yielded, popped>>

\* for p in map(Path, paths): one iteration
SeedPath ==
  /\ pc = "seed"
  /\ i <= Len(paths)
  /\ IF dandiset_path # None /\ ~IsRelativeTo(paths[i], dandiset_path)
     THEN /\ pc' = "raised"
          /\ err' = "ValueError: not inside Dandiset path"
          /\ UNCHANGED <<i, path_queue>>
     ELSE /\ path_queue' = Append(path_queue, <<paths[i], NoRef>>)
          /\ i' = i + 1
          /\ UNCHANGED <<pc, err>>
  /\ UNCHANGED <<inputs, objs, dataset_files, yielded, popped>>

\* the for loop is exhausted
SeedDone ==
  /\ pc = "seed"
  /\ i > Len(paths)
  /\ pc' = "loop"
  /\ UNCHANGED <<inputs, i, path_queue, objs, dataset_files, yielded, popped,
                 err>>

Popping == pc = "loop" /\ path_queue # << >>

p_ == Head(path_queue)[1]

bidsdd_ == Head(path_queue)[2]

\* the children put at the front of the queue: a stack
Enqueue_AtFront(q, p, bidsdd) ==
  [k \in 1..Len(iterdir(p)) |-> <<iterdir(p)[k], bidsdd>>] \o q

Enqueue(q, p, bidsdd) ==
  q \o [k \in 1..Len(iterdir(p)) |-> <<iterdir(p)[k], bidsdd>>]

\* PopHidden skipping only the files: a dot-directory is walked
PopHidden_FilesOnly ==
  /\ Popping
  /\ StartsWith(Name(p_), ".")
  /\ path_queue' = IF is_dir(p_) THEN Enqueue(Tail(path_queue), p_, bidsdd_)
                   ELSE Tail(path_queue)
  /\ popped' = Append(popped, Head(path_queue))
  /\ UNCHANGED <<inputs, pc, i, objs, dataset_files, yielded, err>>

\* if p.name.startswith("."): continue
PopHidden ==
  /\ Popping
  /\ StartsWith(Name(p_), ".")
  /\ path_queue' = Tail(path_queue)
  /\ popped' = Append(popped, Head(path_queue))
  /\ UNCHANGED <<inputs, pc, i, objs, dataset_files, yielded, err>>

\* PopSymlinkDir following a link that leads back to a directory above it:
\* the walk meets the link again
PopSymlinkDir_FollowCycle ==
  /\ Popping
  /\ ~StartsWith(Name(p_), ".")
  /\ is_dir(p_) /\ is_symlink(p_)
  /\ path_queue' = Append(Tail(path_queue), Head(path_queue))
  /\ UNCHANGED <<inputs, pc, i, objs, dataset_files, yielded, popped, err>>

\* PopSymlinkDir testing for the dataset root first: a symlinked root is
\* listed
PopSymlinkDir_RootFirst ==
  /\ Popping
  /\ ~StartsWith(Name(p_), ".")
  /\ is_dir(p_) /\ is_symlink(p_)
  /\ path_queue' = IF dandiset_path # None /\ p_ = dandiset_path
                   THEN Enqueue(Tail(path_queue), p_, bidsdd_)
                   ELSE Tail(path_queue)
  /\ popped' = Append(popped, Head(path_queue))
  /\ UNCHANGED <<inputs, pc, i, objs, dataset_files, yielded, err>>

\* a symbolic link to a directory: warning only
PopSymlinkDir ==
  /\ Popping
  /\ ~StartsWith(Name(p_), ".")
  /\ is_dir(p_) /\ is_symlink(p_)
  /\ path_queue' = Tail(path_queue)
  /\ popped' = Append(popped, Head(path_queue))
  /\ UNCHANGED <<inputs, pc, i, objs, dataset_files, yielded, err>>

\* Traverse binding a description only where none is inherited
Traverse_KeepOuter(p, bidsdd) ==
  IF bidsdd = NoRef /\ exists(Join(p, BIDS_DATASET_DESCRIPTION))
  THEN LET bids2 == dandi_file(Join(p, BIDS_DATASET_DESCRIPTION),
                               dandiset_path, NoRef)
       IN  IF bids2.out = "raise"
           THEN /\ pc' = "raised"
                /\ err' = bids2.exc
                /\ path_queue' = Tail(path_queue)
                /\ UNCHANGED <<objs, dataset_files>>
           ELSE /\ objs' = ObjsAfter(bids2)
                /\ dataset_files' = FilesAfter(bids2)
                /\ path_queue' = Enqueue(Tail(path_queue), p, ResultId(bids2))
                /\ UNCHANGED <<pc, err>>
  ELSE /\ path_queue' = Enqueue(Tail(path_queue), p, bidsdd)
       /\ UNCHANGED <<pc, err, objs, dataset_files>>

\* look for dataset_description.json in p, bind it, enqueue the children
Traverse(p, bidsdd) ==
  IF exists(Join(p, BIDS_DATASET_DESCRIPTION))
  THEN LET bids2 == dandi_file(Join(p, BIDS_DATASET_DESCRIPTION),
                               dandiset_path, NoRef)
       IN  IF bids2.out = "raise"
           THEN /\ pc' = "raised"
                /\ err' = bids2.exc
                /\ path_queue' = Tail(path_queue)
                /\ UNCHANGED <<objs, dataset_files>>
           ELSE /\ objs' = ObjsAfter(bids2)
                /\ dataset_files' = FilesAfter(bids2)
                /\ IF objs'[ResultId(bids2)].cls # "BIDSDatasetDescriptionAsset"
                   THEN /\ pc' = "raised"
                        /\ err' = "AssertionError"
                        /\ path_queue' = Tail(path_queue)
                   ELSE /\ path_queue' =
                             Enqueue(Tail(path_queue), p, ResultId(bids2))
                        /\ UNCHANGED <<pc, err>>
  ELSE /\ path_queue' = Enqueue(Tail(path_queue), p, bidsdd)
       /\ UNCHANGED <<pc, err, objs, dataset_files>>

\* elif dandiset_path is not None and p == Path(dandiset_path)
PopRoot ==
  /\ Popping
  /\ ~StartsWith(Name(p_), ".")
  /\ is_dir(p_) /\ ~is_symlink(p_)
  /\ dandiset_path # None /\ p_ = dandiset_path
  /\ Traverse(p_, bidsdd_)
  /\ popped' = Append(popped, Head(path_queue))
  /\ UNCHANGED <<inputs, i, yielded>>

DirBranch ==
  /\ Popping
  /\ ~StartsWith(Name(p_), ".")
  /\ is_dir(p_) /\ ~is_symlink(p_)
  /\ ~(dandiset_path # None /\ p_ = dandiset_path)

\* PopDirAsset that also walks into the directory asset
PopDirAsset_Recurse ==
  /\ DirBranch
  /\ any_iterdir(p_)
  /\ LET df == dandi_file(p_, dandiset_path, bidsdd_)
     IN  /\ df.out # "raise"
         /\ objs' = ObjsAfter(df)
         /\ dataset_files' = FilesAfter(df)
         /\ yielded' = Append(yielded, ResultId(df))
  /\ path_queue' = Enqueue(Tail(path_queue), p_, bidsdd_)
  /\ popped' = Append(popped, Head(path_queue))
  /\ UNCHANGED <<inputs, pc, i, err>>

\* elif any(p.iterdir()): dandi_file succeeds, yield df
PopDirAsset ==
  /\ DirBranch
  /\ any_iterdir(p_)
  /\ LET df == dandi_file(p_, dandiset_path, bidsdd_)
     IN  /\ df.out # "raise"
         /\ objs' = ObjsAfter(df)
         /\ dataset_files' = FilesAfter(df)
         /\ yielded' = Append(yielded, ResultId(df))
  /\ path_queue' = Tail(path_queue)
  /\ popped' = Append(popped, Head(path_queue))
  /\ UNCHANGED <<inputs, pc, i, err>>

\* elif any(p.iterdir()): dandi_file raises
PopPlainDir ==
  /\ DirBranch
  /\ any_iterdir(p_)
  /\ LET df == dandi_file(p_, dandiset_path, bidsdd_)
     IN  /\ df.out = "raise"
         /\ IF df.exc = "UnknownAssetError"
            THEN Traverse(p_, bidsdd_)
            ELSE /\ pc' = "raised"
                 /\ err' = df.exc
                 /\ path_queue' = Tail(path_queue)
                 /\ UNCHANGED <<objs, dataset_files>>
  /\ popped' = Append(popped, Head(path_queue))
  /\ UNCHANGED <<inputs, i, yielded>>

\* an empty directory: nothing happens
PopEmptyDir ==
  /\ DirBranch
  /\ ~any_iterdir(p_)
  /\ path_queue' = Tail(path_queue)
  /\ popped' = Append(popped, Head(path_queue))
  /\ UNCHANGED <<inputs, pc, i, objs, dataset_files, yielded, err>>

\* the filter written with isinstance(df, GenericAsset)
Suppressed_isinstance(cls) ==
  \/ cls \in {"GenericAsset", "GenericBIDSAsset"} /\ ~allow_all
  \/ cls = "DandisetMetadataFile" /\ ~(allow_all \/ include_metadata)

\* the filter ignoring include_metadata
Suppressed_NoMetadataFlag(cls) ==
  \/ cls = "GenericAsset" /\ ~allow_all
  \/ cls = "DandisetMetadataFile" /\ ~allow_all

\* if type(df) is GenericAsset and not allow_all ... elif isinstance(...)
Suppressed(cls) ==
  \/ cls = "GenericAsset" /\ ~allow_all
  \/ cls = "DandisetMetadataFile" /\ ~(allow_all \/ include_metadata)

\* PopFile filtering before the entity is kept: a suppressed file leaves
\* no entity behind
PopFile_SkipSuppressed ==
  /\ Popping
  /\ ~StartsWith(Name(p_), ".")
  /\ ~is_dir(p_)
  /\ LET df == dandi_file(p_, dandiset_path, bidsdd_)
         cls == IF df.out = "same" THEN objs[df.id].cls ELSE df.obj.cls
     IN  IF df.out = "raise"
         THEN /\ pc' = "raised"
              /\ err' = df.exc
              /\ UNCHANGED <<objs, dataset_files, yielded>>
         ELSE /\ IF Suppressed(cls)
                 THEN UNCHANGED <<objs, dataset_files, yielded>>
                 ELSE /\ objs' = ObjsAfter(df)
                      /\ dataset_files' = FilesAfter(df)
                      /\ yielded' = Append(yielded, ResultId(df))
              /\ UNCHANGED <<pc, err>>
  /\ path_queue' = Tail(path_queue)
  /\ popped' = Append(popped, Head(path_queue))
  /\ UNCHANGED <<inputs, i>>

\* else: df = dandi_file(...); filter; yield df
PopFile ==
  /\ Popping
  /\ ~StartsWith(Name(p_), ".")
  /\ ~is_dir(p_)
  /\ LET df == dandi_file(p_, dandiset_path, bidsdd_)
     IN  IF df.out = "raise"
         THEN /\ pc' = "raised"
              /\ err' = df.exc
              /\ UNCHANGED <<objs, dataset_files, yielded>>
         ELSE /\ objs' = ObjsAfter(df)
              /\ dataset_files' = FilesAfter(df)
              /\ yielded' = IF Suppressed(objs'[ResultId(df)].cls)
                            THEN yielded
                            ELSE Append(yielded, ResultId(df))
              /\ UNCHANGED <<pc, err>>
  /\ path_queue' = Tail(path_queue)
  /\ popped' = Append(popped, Head(path_queue))
  /\ UNCHANGED <<inputs, i>>

\* while path_queue: the queue is empty, the generator returns
Finish ==
  /\ pc = "loop"
  /\ path_queue = << >>
  /\ pc' = "done"
  /\ UNCHANGED <<inputs, i, path_queue, objs, dataset_files, yielded, popped,
                 err>>

Next ==
  \/ SeedPath
  \/ SeedDone
  \/ PopHidden
  \/ PopSymlinkDir
  \/ PopRoot
  \/ PopDirAsset
  \/ PopPlainDir
  \/ PopEmptyDir
  \/ PopFile
  \/ Finish

Spec == Init /\ [][Next]_vars

(***************************************************************************)
(* Two runs of find_dandi_files on the same tree, paths, root and listing  *)
(* order: the first with both flags false, the second, once the first has  *)
(* ended, with any other flag setting.                                     *)
(***************************************************************************)
InitTwoRuns == Init /\ ~allow_all /\ ~include_metadata

\* find_dandi_files(*paths, dandiset_path, allow_all, include_metadata) again
Rerun ==
  /\ pc \in {"done", "raised"}
  /\ ~first.ran
  /\ first' = [ran |-> TRUE, pc |-> pc, err |-> err, popped |-> popped,
               objs |-> objs, dataset_files |-> dataset_files,
               yielded |-> yielded]
  /\ \E a, m \in BOOLEAN :
       /\ a \/ m
       /\ allow_all' = a
       /\ include_metadata' = m
  /\ pc' = "seed"
  /\ i' = 1
  /\ path_queue' = << >>
  /\ objs' = << >>
  /\ dataset_files' = << >>
  /\ yielded' = << >>
  /\ popped' = << >>
  /\ err' = "none"
  /\ UNCHANGED <<fs, rev, paths, dandiset_path>>

NextTwoRuns ==
  \/ Next
  \/ Rerun

SpecTwoRuns == InitTwoRuns /\ [][NextTwoRuns]_vars

\* A fully consumed run: the generator is resumed until it returns or raises.
\* Both flags are set, so that every entity constructed is also yielded.
InitFair == Init /\ allow_all /\ include_metadata

FairSpec == InitFair /\ [][Next]_vars /\ WF_vars(Next)

(***************************************************************************)
(* A single call of dandi_file, on any existing path, with any dataset     *)
(* root and with or without a description entity built by an earlier call. *)
(***************************************************************************)
InitDandiFile ==
  /\ fs \in Trees
  /\ rev = FALSE
  /\ dandiset_path \in {r \in Roots : r = None \/ fs[r] # "absent"}
  /\ paths \in {<<f>> : f \in {q \in UniverseSet : fs[q] # "absent"}}
  /\ allow_all = FALSE
  /\ include_metadata = FALSE
  /\ pc = "context"
  /\ i = 1
  /\ path_queue = << >>
  /\ objs = << >>
  /\ dataset_files = << >>
  /\ yielded = << >>
  /\ popped = << >>
  /\ err = "none"
  /\ first = NoRun

\* bids_dataset_description: the entity of some dataset_description.json
MakeContext ==
  /\ pc = "context"
  /\ \E d \in UniverseSet :
       LET res == dandi_file(Join(d, BIDS_DATASET_DESCRIPTION), dandiset_path,
                             NoRef)
       IN  /\ is_file(Join(d, BIDS_DATASET_DESCRIPTION))
           /\ res.out = "new"
           /\ objs' = ObjsAfter(res)
           /\ dataset_files' = FilesAfter(res)
  /\ pc' = "call"
  /\ UNCHANGED <<inputs, i, path_queue, yielded, popped, err>>

\* bids_dataset_description=None
NoContext ==
  /\ pc = "context"
  /\ pc' = "call"
  /\ UNCHANGED <<inputs, i, path_queue, objs, dataset_files, yielded, popped,
                 err>>

\* dandi_file(filepath, dandiset_path, bids_dataset_description)
CallDandiFile ==
  /\ pc = "call"
  /\ LET res == dandi_file(paths[1], dandiset_path,
                           IF objs = << >> THEN NoRef ELSE 1)
     IN  IF res.out = "raise"
         THEN /\ pc' = "raised"
              /\ err' = res.exc
              /\ UNCHANGED <<objs, dataset_files, yielded>>
         ELSE /\ pc' = "returned"
              /\ objs' = ObjsAfter(res)
              /\ dataset_files' = FilesAfter(res)
              /\ yielded' = <<ResultId(res)>>
              /\ err' = err
  /\ UNCHANGED <<inputs, i, path_queue, popped>>

NextDandiFile ==
  \/ MakeContext
  \/ NoContext
  \/ CallDandiFile

SpecDandiFile == InitDandiFile /\ [][NextDandiFile]_vars

(***************************************************************************)
(* find_bids_dataset_description, one loop iteration per step, on trees    *)
(* where the two marker files of the top directory may also be a           *)
(* directory, a symbolic link to a directory or a dangling symbolic link.  *)
(***************************************************************************)
Rekind(t, p, kinds) ==
  IF t[p] = "absent" THEN {t} ELSE {[t EXCEPT ![p] = k] : k \in kinds}

LocatorTrees ==
  UNION {UNION {Rekind(u, Join(DS, dandiset_metadata_file),
                       {"file", "dir", "broken"}) :
                  u \in Rekind(t, Join(DS, BIDS_DATASET_DESCRIPTION),
                               {"file", "dir", "linkdir", "broken"})} :
           t \in Trees}

\* (dirpath, *dirpath.parents)
Ancestors(dirpath) ==
  [k \in 1..(Len(dirpath) + 1) |-> SubSeq(dirpath, 1, Len(dirpath) + 1 - k)]

dirpath_ == paths[1]

d_ == Ancestors(dirpath_)[i]

bids_marker == Join(d_, BIDS_DATASET_DESCRIPTION)

dandi_end == Join(d_, dandiset_metadata_file)

InitLocator ==
  /\ fs \in LocatorTrees
  /\ rev = FALSE
  /\ dandiset_path \in {r \in Roots : r = None \/ fs[r] # "absent"}
  /\ paths \in {<<q>> : q \in {q \in UniverseSet : fs[q] # "absent"}}
  /\ allow_all = FALSE
  /\ include_metadata = FALSE
  /\ pc = "locate"
  /\ i = 1
  /\ path_queue = << >>
  /\ objs = << >>
  /\ dataset_files = << >>
  /\ yielded = << >>
  /\ popped = << >>
  /\ err = "none"
  /\ first = NoRun

Locating == pc = "locate" /\ i <= Len(Ancestors(dirpath_))

\* if bids_marker.is_file() or bids_marker.is_symlink(): return dandi_file(..)
LocateMarker ==
  /\ Locating
  /\ is_file(bids_marker) \/ is_symlink(bids_marker)
  /\ LET f == dandi_file(bids_marker, dandiset_path, NoRef)
     IN  IF f.out = "raise"
         THEN /\ pc' = "raised"
              /\ err' = f.exc
              /\ UNCHANGED <<objs, dataset_files, yielded>>
         ELSE /\ objs' = ObjsAfter(f)
              /\ dataset_files' = FilesAfter(f)
              /\ IF objs'[ResultId(f)].cls # "BIDSDatasetDescriptionAsset"
                 THEN /\ pc' = "raised"
                      /\ err' = "AssertionError"
                      /\ UNCHANGED yielded
                 ELSE /\ pc' = "returned"
                      /\ yielded' = <<ResultId(f)>>
                      /\ UNCHANGED err
  /\ UNCHANGED <<inputs, i, path_queue, popped>>

\* elif dandi_end.is_file() or dandi_end.is_symlink(): return None
LocateMetadataEnd ==
  /\ Locating
  /\ ~(is_file(bids_marker) \/ is_symlink(bids_marker))
  /\ is_file(dandi_end) \/ is_symlink(dandi_end)
  /\ pc' = "none"
  /\ UNCHANGED <<inputs, i, path_queue, objs, dataset_files, yielded, popped,
                 err>>

\* elif dandiset_path is not None and d == Path(dandiset_path): return None
LocateRootEnd ==
  /\ Locating
  /\ ~(is_file(bids_marker) \/ is_symlink(bids_marker))
  /\ ~(is_file(dandi_end) \/ is_symlink(dandi_end))
  /\ dandiset_path # None /\ d_ = dandiset_path
  /\ pc' = "none"
  /\ UNCHANGED <<inputs, i, path_queue, objs, dataset_files, yielded, popped,
                 err>>

\* no branch taken: the loop goes on with the parent
LocateUp ==
  /\ Locating
  /\ ~(is_file(bids_marker) \/ is_symlink(bids_marker))
  /\ ~(is_file(dandi_end) \/ is_symlink(dandi_end))
  /\ ~(dandiset_path # None /\ d_ = dandiset_path)
  /\ i' = i + 1
  /\ UNCHANGED <<inputs, pc, path_queue, objs, dataset_files, yielded, popped,
                 err>>

\* the loop is exhausted: return None
LocateExhausted ==
  /\ pc = "locate"
  /\ i > Len(Ancestors(dirpath_))
  /\ pc' = "none"
  /\ UNCHANGED <<inputs, i, path_queue, objs, dataset_files, yielded, popped,
                 err>>

NextLocator ==
  \/ LocateMarker
  \/ LocateMetadataEnd
  \/ LocateRootEnd
  \/ LocateUp
  \/ LocateExhausted

SpecLocator == InitLocator /\ [][NextLocator]_vars

(***************************************************************************)
(* Calls of a BIDSFileFactory: the governing description is built first,   *)
(* then the factory is called on existing paths, the same path twice       *)
(* included.  popped logs the arguments, yielded the results.              *)
(***************************************************************************)
InitFactory ==
  /\ fs \in Trees
  /\ rev = FALSE
  /\ dandiset_path \in {r \in Roots : r = None \/ fs[r] # "absent"}
  /\ paths = << >>
  /\ allow_all = FALSE
  /\ include_metadata = FALSE
  /\ pc = "govern"
  /\ i = 1
  /\ path_queue = << >>
  /\ objs = << >>
  /\ dataset_files = << >>
  /\ yielded = << >>
  /\ popped = << >>
  /\ err = "none"
  /\ first = NoRun

\* BIDSFileFactory(bids_dataset_description): the governing entity
MakeGoverning ==
  /\ pc = "govern"
  /\ \E d \in UniverseSet :
       LET res == dandi_file(Join(d, BIDS_DATASET_DESCRIPTION), dandiset_path,
                             NoRef)
       IN  /\ Kind(Join(d, BIDS_DATASET_DESCRIPTION)) \in {"file", "broken"}
           /\ res.out = "new"
           /\ objs' = ObjsAfter(res)
           /\ dataset_files' = FilesAfter(res)
  /\ pc' = "factory"
  /\ UNCHANGED <<inputs, i, path_queue, yielded, popped, err>>

\* the path argument dandi_file computes for filepath
PathArgument(filepath) ==
  IF dandiset_path # None /\ IsRelativeTo(filepath, dandiset_path)
       /\ filepath # dandiset_path
  THEN AsPosix(RelativeTo(filepath, dandiset_path))
  ELSE Name(filepath)

\* factory(filepath, path)
CallFactory ==
  /\ pc = "factory"
  /\ i <= MaxCalls
  /\ \E filepath \in {q \in UniverseSet : fs[q] # "absent"} :
       LET res == BIDSFileFactory(1, filepath, PathArgument(filepath))
       IN  /\ popped' = Append(popped, <<filepath, 1>>)
           /\ IF res.out = "raise"
              THEN /\ pc' = "raised"
                   /\ err' = res.exc
                   /\ UNCHANGED <<objs, dataset_files, yielded>>
              ELSE /\ objs' = ObjsAfter(res)
                   /\ dataset_files' = FilesAfter(res)
                   /\ yielded' = Append(yielded, ResultId(res))
                   /\ UNCHANGED <<pc, err>>
  /\ i' = i + 1
  /\ UNCHANGED <<inputs, path_queue>>

NextFactory ==
  \/ MakeGoverning
  \/ CallFactory

SpecFactory == InitFactory /\ [][NextFactory]_vars

(***************************************************************************)
(* A single call of DandiFileType.classify on any existing path.  The      *)
(* call and its outcome are logged in popped.                              *)
(***************************************************************************)
InitClassify ==
  /\ fs \in LocatorTrees
  /\ rev \in BOOLEAN
  /\ dandiset_path \in {r \in Roots : r = None \/ fs[r] # "absent"}
  /\ paths \in {<<q>> : q \in {q \in UniverseSet : fs[q] # "absent"}}
  /\ allow_all = FALSE
  /\ include_metadata = FALSE
  /\ pc = "classify"
  /\ i = 1
  /\ path_queue = << >>
  /\ objs = << >>
  /\ dataset_files = << >>
  /\ yielded = << >>
  /\ popped = << >>
  /\ err = "none"
  /\ first = NoRun

\* DandiFileType.classify(path)
CallClassify ==
  /\ pc = "classify"
  /\ LET ftype == classify(paths[1])
     IN  /\ popped' = <<<<paths[1], ftype>>>>
         /\ IF ftype = "UnknownAssetError"
            THEN pc' = "raised" /\ err' = ftype
            ELSE pc' = "returned" /\ err' = err
  /\ UNCHANGED <<inputs, i, path_queue, objs, dataset_files, yielded>>

NextClassify == CallClassify

SpecClassify == InitClassify /\ [][NextClassify]_vars

TypeOK ==
  /\ pc \in {"seed", "loop", "done", "raised", "context", "call", "returned",
             "locate", "none", "govern", "factory", "classify"}
  /\ Len(dataset_files) = Len(objs)
  /\ \A k \in 1..Len(yielded) : yielded[k] \in 1..Len(objs)

(***************************************************************************)
(* Vocabulary of the properties.                                           *)
(***************************************************************************)
IsPrefix(a, b) == Len(a) <= Len(b) /\ \A k \in 1..Len(a) : a[k] = b[k]

StrictlyInside(q, d) == Len(d) < Len(q) /\ IsPrefix(d, q)

Prefixes(q) == {SubSeq(q, 1, n) : n \in 1..Len(q)}

Dotted(name) == Len(name) > 0 /\ SubSeq(name, 1, 1) = "."

YieldedObjs == {objs[yielded[k]] : k \in 1..Len(yielded)}

QueuedPaths == {path_queue[k][1] : k \in 1..Len(path_queue)}

PoppedPaths == {popped[k][1] : k \in 1..Len(popped)}

Starts == {paths[k] : k \in 1..Len(paths)}

HasRoot == dandiset_path # None

OffendingStart ==
  HasRoot /\ \E k \in 1..Len(paths) : ~IsPrefix(dandiset_path, paths[k])

\* no starting path is equal to, an ancestor of or a descendant of another
DisjointStarts ==
  \A j, k \in 1..Len(paths) : j # k => ~IsPrefix(paths[j], paths[k])

(***************************************************************************)
(* C1: with a dataset root and a starting path, at any position, that is   *)
(* neither the root nor below it, the run ends in the not-inside error     *)
(* with nothing popped, nothing constructed, nothing yielded and no        *)
(* collection touched, whatever valid paths precede the offending one.     *)
(***************************************************************************)
C1_FailsBeforeTraversal ==
  OffendingStart =>
    /\ pc \in {"seed", "raised"}
    /\ pc = "seed" => i <= Len(paths) /\ err = "none"
    /\ pc = "raised" => err = "ValueError: not inside Dandiset path"
    /\ popped = << >>
    /\ objs = << >>
    /\ dataset_files = << >>
    /\ yielded = << >>

C1_Witness ==
  /\ pc = "raised"
  /\ err = "ValueError: not inside Dandiset path"
  /\ i = 2
  /\ Len(path_queue) = 1
  /\ IsPrefix(dandiset_path, paths[1])

(***************************************************************************)
(* C2 as stated: a run yields at most one DandisetMetadataFile, and a      *)
(* yielded one is the file dandiset.yaml directly in the dataset root.     *)
(***************************************************************************)
MetadataYields ==
  {k \in 1..Len(yielded) : objs[yielded[k]].cls = "DandisetMetadataFile"}

AtDatasetRoot(filepath) ==
  /\ Name(filepath) = "dandiset.yaml"
  /\ fs[filepath] = "file"
  /\ HasRoot => Parent(filepath) = dandiset_path

C2_AtMostOneMetadata ==
  /\ Cardinality(MetadataYields) <= 1
  /\ \A k \in MetadataYields : AtDatasetRoot(objs[yielded[k]].filepath)

(***************************************************************************)
(* C2 amended: every yielded DandisetMetadataFile is a file named          *)
(* dandiset.yaml lying directly in the dataset root (with no root given,   *)
(* in its own parent directory); at most one is yielded when a root is     *)
(* given and no starting path is equal to, above or below another.         *)
(***************************************************************************)
C2_MetadataOnlyAtRoot ==
  /\ \A k \in MetadataYields : AtDatasetRoot(objs[yielded[k]].filepath)
  /\ HasRoot /\ DisjointStarts => Cardinality(MetadataYields) <= 1

C2_Witness ==
  /\ pc = "done"
  /\ HasRoot /\ DisjointStarts
  /\ Cardinality(MetadataYields) = 1
  /\ \E q \in PoppedPaths :
       Name(q) = "dandiset.yaml" /\ Parent(q) # dandiset_path

(***************************************************************************)
(* C3 as stated: nothing strictly inside a non-empty directory with a Zarr *)
(* extension is ever classified into an entity, so none is yielded.        *)
(***************************************************************************)
HasZarrExtension(name) ==
  \E e \in ZARR_EXTENSIONS :
    Len(name) > Len(e)
    /\ SubSeq(name, Len(name) - Len(e) + 1, Len(name)) = e

IsZarrDir(z) ==
  /\ z \in UniverseSet
  /\ fs[z] \in {"dir", "linkdir"}
  /\ HasZarrExtension(Name(z))
  /\ \E q \in UniverseSet :
       Len(q) = Len(z) + 1 /\ fs[q] # "absent" /\ IsPrefix(z, q)

ZarrDirs == {z \in {DS, SUBD, ZARRD, HID} : IsZarrDir(z)}

ProperPrefixes(q) == {SubSeq(q, 1, n) : n \in 1..(Len(q) - 1)}

Touched ==
  QueuedPaths \cup PoppedPaths \cup {o.filepath : o \in YieldedObjs}
    \cup {objs[k].filepath : k \in 1..Len(objs)}

C3_NothingInsideZarr ==
  \A z \in ZarrDirs :
    \A k \in 1..Len(objs) : ~StrictlyInside(objs[k].filepath, z)

(***************************************************************************)
(* C3 amended: a non-empty directory with a Zarr extension that is not     *)
(* the dataset root contributes no children: a path strictly inside it is  *)
(* yielded, enqueued or classified only when it is at or below a starting  *)
(* path that is itself strictly inside the directory.                      *)
(***************************************************************************)
C3_ZarrIsTerminal ==
  \A q \in Touched :
    \A z \in ProperPrefixes(q) :
      IsZarrDir(z) /\ z # dandiset_path =>
        \E s \in Starts : StrictlyInside(s, z) /\ IsPrefix(s, q)

C3_Witness ==
  /\ pc = "done"
  /\ \E o \in YieldedObjs :
       /\ o.cls \in {"ZarrAsset", "ZarrBIDSAsset"}
       /\ o.filepath \in ZarrDirs
       /\ \A q \in Touched : ~StrictlyInside(q, o.filepath)

(***************************************************************************)
(* C4 as stated: no yielded entity has a name starting with a period, and  *)
(* none has an ancestor directory whose name starts with a period.         *)
(***************************************************************************)
C4_NoDotAnywhere ==
  \A o \in YieldedObjs : \A a \in Prefixes(o.filepath) : ~Dotted(Name(a))

(***************************************************************************)
(* C4 amended: no yielded entity has a name starting with a period, and    *)
(* every yielded entity is at or below a starting path from which no       *)
(* component down to the entity's own name starts with a period.           *)
(***************************************************************************)
C4_NoDotBelowStart ==
  \A o \in YieldedObjs :
    /\ ~Dotted(Name(o.filepath))
    /\ \E s \in Starts :
         /\ IsPrefix(s, o.filepath)
         /\ \A a \in Prefixes(o.filepath) :
              Len(a) >= Len(s) => ~Dotted(Name(a))

C4_Witness ==
  /\ pc = "done"
  /\ yielded # << >>
  /\ \E h \in PoppedPaths :
       /\ Dotted(Name(h))
       /\ fs[h] = "dir"
       /\ h \notin Starts
       /\ \E q \in UniverseSet : StrictlyInside(q, h) /\ fs[q] = "file"

(***************************************************************************)
(* C5: at every point of a traversal, the dataset_files of each            *)
(* description entity is exactly the sequence of the BIDS assets yielded   *)
(* so far that reference it, in the order they were yielded.               *)
(***************************************************************************)
Descriptions ==
  {d \in 1..Len(objs) : objs[d].cls = "BIDSDatasetDescriptionAsset"}

YieldedFor(d) ==
  LET Refers(y) == objs[y].cls \in BIDSClasses /\ objs[y].ref = d
  IN  SelectSeq(yielded, Refers)

C5_FilesAreYieldedAssets ==
  \A d \in Descriptions : dataset_files[d] = YieldedFor(d)

C5_Witness ==
  /\ pc = "done"
  /\ \E d \in Descriptions :
       /\ Len(dataset_files[d]) >= 2
       /\ objs[dataset_files[d][1]].cls # objs[dataset_files[d][2]].cls

(***************************************************************************)
(* C6 as stated: every file below a directory holding                      *)
(* dataset_description.json (in the directory itself or in an ancestor up  *)
(* to the dataset root) is yielded as a BIDS asset that references the     *)
(* entity of that description, also when the starting path lies below the  *)
(* directory of the description.                                           *)
(***************************************************************************)
DescriptionIn(d) == fs[Join(d, "dataset_description.json")] = "file"

EnclosingDescriptionDirs(f) ==
  {d \in Prefixes(Parent(f)) :
     /\ HasRoot => IsPrefix(dandiset_path, d)
     /\ Join(d, "dataset_description.json") \in UniverseSet
     /\ DescriptionIn(d)}

Deepest(D) == CHOOSE d \in D : \A e \in D : Len(e) <= Len(d)

\* an asset of a regular file that lies in no dot-directory and in no Zarr
\* directory
PlainFileEntity(o) ==
  /\ fs[o.filepath] = "file"
  /\ o.cls \notin {"DandisetMetadataFile", "BIDSDatasetDescriptionAsset"}
  /\ \A a \in Prefixes(o.filepath) : ~Dotted(Name(a)) /\ a \notin ZarrDirs

C6_EveryFileUnderDescriptionIsBIDS ==
  \A o \in YieldedObjs :
    HasRoot /\ PlainFileEntity(o)
      /\ EnclosingDescriptionDirs(o.filepath) # {} =>
      /\ o.cls \in BIDSClasses
      /\ objs[o.ref].filepath =
           Join(Deepest(EnclosingDescriptionDirs(o.filepath)),
                "dataset_description.json")

(***************************************************************************)
(* C7: every queued path carries the description entity of the nearest     *)
(* directory above it, at or below the starting path it was reached from,  *)
(* that holds a dataset_description.json file, and none when there is no   *)
(* such directory; a nested description supersedes the outer one, so no    *)
(* BIDS asset references, or is collected by, a description when a deeper  *)
(* description lies between the two.                                       *)
(***************************************************************************)
WalkedDescriptionDirs(q, s) ==
  {d \in Prefixes(Parent(q)) :
     /\ Len(d) >= Len(s)
     /\ Join(d, "dataset_description.json") \in UniverseSet
     /\ DescriptionIn(d)}

ContextFits(q, c, s) ==
  LET D == WalkedDescriptionDirs(q, s)
  IN  IF q = s \/ D = {} THEN c = 0
      ELSE /\ c \in Descriptions
           /\ objs[c].filepath = Join(Deepest(D), "dataset_description.json")

NoDescriptionBetween(d, f) ==
  \A m \in Prefixes(Parent(f)) :
    Len(m) > Len(d) /\ Join(m, "dataset_description.json") \in UniverseSet
      => ~DescriptionIn(m)

C7_NearestDescriptionWins ==
  /\ \A k \in 1..Len(path_queue) :
       \E s \in Starts :
         /\ IsPrefix(s, path_queue[k][1])
         /\ ContextFits(path_queue[k][1], path_queue[k][2], s)
  /\ \A k \in 1..Len(objs) :
       objs[k].cls \in BIDSClasses =>
         /\ objs[k].ref \in Descriptions
         /\ StrictlyInside(objs[k].filepath, Parent(objs[objs[k].ref].filepath))
         /\ NoDescriptionBetween(Parent(objs[objs[k].ref].filepath),
                                 objs[k].filepath)
  /\ \A d \in Descriptions :
       \A k \in 1..Len(dataset_files[d]) :
         NoDescriptionBetween(Parent(objs[d].filepath),
                              objs[dataset_files[d][k]].filepath)

C7_Witness ==
  /\ pc = "done"
  /\ \E outer, inner \in Descriptions :
       /\ StrictlyInside(objs[inner].filepath, Parent(objs[outer].filepath))
       /\ Len(objs[inner].filepath) > Len(objs[outer].filepath)
       /\ Len(dataset_files[inner]) > 0
       /\ \E k \in 1..Len(popped) : popped[k] = <<Parent(objs[inner].filepath),
                                                  outer>>

(***************************************************************************)
(* C8 as stated: a run of find_dandi_files ends in no error other than the *)
(* path-outside-root error and the path-equals-root error; an              *)
(* UnknownAssetError never reaches the consumer.                           *)
(***************************************************************************)
C8_OnlyPathErrorsAbort ==
  err \in {"none",
           "ValueError: not inside Dandiset path",
           "ValueError: Dandi file path cannot equal Dandiset path"}

(***************************************************************************)
(* C9: an entity constructed for a popped path is yielded unless it is a   *)
(* plain GenericAsset and allow_all is false, or it is the                 *)
(* DandisetMetadataFile and neither allow_all nor include_metadata is      *)
(* true; every other entity is yielded, once, under every flag setting (a  *)
(* description bound to its directory is yielded when its file is popped). *)
(***************************************************************************)
TimesYielded(id) == Cardinality({k \in 1..Len(yielded) : yielded[k] = id})

Awaiting(id) ==
  \E k \in 1..Len(path_queue) : path_queue[k] = <<objs[id].filepath, id>>

C9_YieldedUnlessFiltered ==
  \A id \in 1..Len(objs) :
    IF objs[id].cls = "GenericAsset"
    THEN TimesYielded(id) = (IF allow_all THEN 1 ELSE 0)
    ELSE IF objs[id].cls = "DandisetMetadataFile"
    THEN TimesYielded(id) = (IF allow_all \/ include_metadata THEN 1 ELSE 0)
    ELSE IF objs[id].cls = "BIDSDatasetDescriptionAsset"
    THEN \/ TimesYielded(id) = 1 /\ ~Awaiting(id)
         \/ TimesYielded(id) = 0 /\ Awaiting(id)
    ELSE TimesYielded(id) = 1

C9_Witness ==
  /\ pc = "done"
  /\ ~allow_all /\ include_metadata
  /\ \E a, b, c \in 1..Len(objs) :
       /\ objs[a].cls = "GenericAsset" /\ TimesYielded(a) = 0
       /\ objs[b].cls = "DandisetMetadataFile" /\ TimesYielded(b) = 1
       /\ objs[c].cls = "GenericBIDSAsset" /\ TimesYielded(c) = 1

(***************************************************************************)
(* C10: dandi_file returns the DandisetMetadataFile only for a file named  *)
(* dandiset.yaml lying directly in the dataset root (the file's parent     *)
(* directory when no root is given); a file of that name anywhere else is  *)
(* a generic asset, GenericBIDSAsset under a BIDS context and GenericAsset *)
(* without one.                                                            *)
(***************************************************************************)
EffectiveRoot(f) == IF HasRoot THEN dandiset_path ELSE Parent(f)

C10_MetadataOnlyAtRoot ==
  pc = "returned" =>
    LET f == paths[1]
        o == objs[yielded[1]]
    IN  /\ o.cls = "DandisetMetadataFile" <=>
             /\ Name(f) = "dandiset.yaml"
             /\ fs[f] = "file"
             /\ Parent(f) = EffectiveRoot(f)
        /\ Name(f) = "dandiset.yaml" /\ fs[f] = "file"
             /\ Parent(f) # EffectiveRoot(f) =>
               o.cls = (IF Len(objs) = 2 THEN "GenericBIDSAsset"
                        ELSE "GenericAsset")

C10_Witness ==
  /\ pc = "returned"
  /\ HasRoot
  /\ Name(paths[1]) = "dandiset.yaml"
  /\ Parent(paths[1]) # dandiset_path
  /\ objs[yielded[1]].cls = "GenericBIDSAsset"

(***************************************************************************)
(* C11 as stated: find_bids_dataset_description looks at start_dir and     *)
(* then at each ancestor in turn and stops at the first directory d that   *)
(* holds dataset_description.json as a regular file or symbolic link (the  *)
(* result is the description entity of that file), or else holds           *)
(* dandiset.yaml (the result is none), or else is the dataset root (none); *)
(* with no such directory the result is none.  No description is returned  *)
(* from above a directory holding dandiset.yaml or from above the root.    *)
(***************************************************************************)
HoldsMarker(d) ==
  Kind(Join(d, "dataset_description.json")) \in {"file", "linkdir", "broken"}

HoldsMetadata(d) ==
  Kind(Join(d, "dandiset.yaml")) \in {"file", "linkdir", "broken"}

Stops(d) == HoldsMarker(d) \/ HoldsMetadata(d) \/ (HasRoot /\ d = dandiset_path)

\* the directories at which the walk from start_dir can stop, nearest first
StopDirs(start) == {d \in Prefixes(start) \cup {<< >>} : Stops(d)}

StartInsideRoot == HasRoot => IsPrefix(dandiset_path, paths[1])

C11_FirstMatchDecides ==
  pc # "locate" /\ StartInsideRoot =>
    LET S == StopDirs(paths[1])
    IN  IF S # {} /\ HoldsMarker(Deepest(S))
        THEN /\ pc = "returned"
             /\ Len(objs) = 1
             /\ objs[yielded[1]] =
                  Entity("BIDSDatasetDescriptionAsset",
                         Join(Deepest(S), "dataset_description.json"),
                         IF HasRoot
                         THEN AsPosix(RelativeTo(
                                Join(Deepest(S), "dataset_description.json"),
                                dandiset_path))
                         ELSE "dataset_description.json",
                         NoRef)
        ELSE pc = "none" /\ objs = << >>

(***************************************************************************)
(* C12: a call of the BIDS factory governed by description D, on a path    *)
(* that classifies as a description, leaves D's collection as it was and   *)
(* returns D itself when the path is D's own file and a new description    *)
(* without a link to D otherwise; on a path of any other type it returns a *)
(* new BIDS asset that refers to D and D's collection grows by exactly     *)
(* that asset, at its end; when classification fails nothing changes.      *)
(***************************************************************************)
FactoryCallEffect ==
  LET D == 1
      f == popped'[Len(popped')][1]
      result == yielded'[Len(yielded')]
      fresh == Len(objs) + 1
      others == \A k \in 1..Len(objs) : dataset_files'[k] = dataset_files[k]
  IN  IF pc' = "raised"
      THEN objs' = objs /\ dataset_files' = dataset_files
             /\ yielded' = yielded
      ELSE IF fs[f] \in {"file", "broken"} /\ Name(f) = "dataset_description.json"
      THEN IF f = objs[D].filepath
           THEN result = D /\ objs' = objs /\ dataset_files' = dataset_files
           ELSE /\ result = fresh
                /\ objs' = Append(objs, objs'[fresh])
                /\ objs'[fresh].cls = "BIDSDatasetDescriptionAsset"
                /\ objs'[fresh].filepath = f
                /\ objs'[fresh].ref = NoRef
                /\ dataset_files' = Append(dataset_files, << >>)
      ELSE /\ result = fresh
           /\ objs' = Append(objs, objs'[fresh])
           /\ objs'[fresh].cls \in BIDSClasses
           /\ objs'[fresh].filepath = f
           /\ objs'[fresh].ref = D
           /\ dataset_files'[D] = Append(dataset_files[D], fresh)
           /\ dataset_files'[fresh] = << >>
           /\ Len(dataset_files') = Len(dataset_files) + 1
           /\ \A k \in 2..Len(objs) : dataset_files'[k] = dataset_files[k]

C12_FactoryFrame == [][pc = "factory" => FactoryCallEffect]_vars

C12_Witness ==
  /\ pc = "factory"
  /\ Len(popped) = 2
  /\ popped[1] = popped[2]
  /\ dataset_files[1] = <<2, 3>>
  /\ objs[2].ref = 1 /\ objs[3].ref = 1

(***************************************************************************)
(* C13: a path that is a symbolic link to a directory is never traversed:  *)
(* the step that pops it only removes it from the queue (nothing is        *)
(* yielded, constructed or enqueued and the run goes on), also when its    *)
(* name has a Zarr extension and when it is the dataset root; no entity    *)
(* is ever constructed for such a path.                                    *)
(***************************************************************************)
SymlinkDirAtHead ==
  pc = "loop" /\ path_queue # << >> /\ fs[Head(path_queue)[1]] = "linkdir"

NoSymlinkDirEntity ==
  \A k \in 1..Len(objs) : fs[objs[k].filepath] # "linkdir"

C13_SymlinkDirSkipped ==
  /\ []NoSymlinkDirEntity
  /\ [][SymlinkDirAtHead =>
          /\ path_queue' = Tail(path_queue)
          /\ popped' = Append(popped, Head(path_queue))
          /\ objs' = objs
          /\ dataset_files' = dataset_files
          /\ yielded' = yielded
          /\ pc' = "loop"
          /\ err' = "none"]_vars

C13_Witness ==
  /\ pc = "done"
  /\ fs[ZARRD] = "linkdir"
  /\ fs[<<"ds", "z.zarr", "v.mp4">>] = "file"
  /\ dandiset_path = ZARRD
  /\ paths = <<ZARRD>>
  /\ popped = <<<<ZARRD, NoRef>>>>
  /\ objs = << >>

(***************************************************************************)
(* C14: the queue is first-in first-out: a step pops nothing or the head   *)
(* of the queue, and adds nothing, one starting path or all the children   *)
(* of the popped directory together (each once, with one context), always  *)
(* behind everything enqueued before; so with a single starting path the   *)
(* entities are yielded in non-decreasing depth.                           *)
(***************************************************************************)
EnqueueLog == popped \o path_queue

Depth(id) == Len(objs[id].filepath)

DepthOrdered ==
  Len(paths) = 1 =>
    \A j, k \in 1..Len(yielded) : j < k => Depth(yielded[j]) <= Depth(yielded[k])

FifoStep ==
  LET old == EnqueueLog
      new == popped' \o path_queue'
      added == SubSeq(new, Len(old) + 1, Len(new))
      AddedPaths == {added[k][1] : k \in 1..Len(added)}
  IN  /\ Len(new) >= Len(old)
      /\ SubSeq(new, 1, Len(old)) = old
      /\ \/ popped' = popped /\ Len(added) <= 1
         \/ /\ path_queue # << >>
            /\ popped' = Append(popped, Head(path_queue))
            /\ \/ added = << >>
               \/ /\ AddedPaths =
                       {q \in UniverseSet :
                          fs[q] # "absent" /\ IsChild(q, Head(path_queue)[1])}
                  /\ Cardinality(AddedPaths) = Len(added)
                  /\ \A k \in 1..Len(added) : added[k][2] = added[1][2]

C14_QueueIsFifo == []DepthOrdered /\ [][FifoStep]_vars

C14_Witness ==
  /\ pc = "done"
  /\ paths = <<DS>>
  /\ ~rev
  /\ \E j, k \in 1..Len(yielded) :
       /\ j < k
       /\ objs[yielded[j]].filepath = ZARRD
       /\ Parent(objs[yielded[k]].filepath) = SUBD

(***************************************************************************)
(* C15: classify fails with UnknownAssetError on an empty directory, also  *)
(* one with a Zarr extension, gives ZARR for a non-empty directory with a  *)
(* Zarr extension and fails on every other directory; a non-directory      *)
(* named dataset_description.json is BIDS_DATASET_DESCRIPTION; otherwise   *)
(* the extension .nwb gives NWB, a video extension VIDEO and anything else *)
(* GENERIC.  The outcome is a function of the path and the file tree.      *)
(***************************************************************************)
EndsWith(name, e) ==
  Len(name) > Len(e) /\ SubSeq(name, Len(name) - Len(e) + 1, Len(name)) = e

HasChildren(f) ==
  \E q \in UniverseSet : fs[q] # "absent" /\ Parent(q) = f

ExpectedType(f) ==
  IF fs[f] \in {"dir", "linkdir"} THEN
    IF HasChildren(f) /\ HasZarrExtension(Name(f)) THEN "ZARR"
    ELSE "UnknownAssetError"
  ELSE IF Name(f) = "dataset_description.json" THEN "BIDS_DATASET_DESCRIPTION"
  ELSE IF EndsWith(Name(f), ".nwb") THEN "NWB"
  ELSE IF \E e \in VIDEO_FILE_EXTENSIONS : EndsWith(Name(f), e) THEN "VIDEO"
  ELSE "GENERIC"

C15_ClassifyPriority ==
  pc # "classify" =>
    /\ popped = <<<<paths[1], ExpectedType(paths[1])>>>>
    /\ pc = "raised" <=> ExpectedType(paths[1]) = "UnknownAssetError"
    /\ pc = "raised" => err = "UnknownAssetError"
    /\ pc = "returned" => err = "none"

C15_Witness ==
  /\ pc = "raised"
  /\ paths = <<ZARRD>>
  /\ ~HasChildren(ZARRD)
  /\ popped = <<<<ZARRD, "UnknownAssetError">>>>

(***************************************************************************)
(* C16 as stated: with a dataset root, every yielded asset has as path its *)
(* filepath relative to the root, components joined by "/", never ".";     *)
(* dandi_file on the root itself fails and constructs nothing; a run       *)
(* started on the root itself does not fail and traverses the children of  *)
(* the root.                                                               *)
(***************************************************************************)
RECURSIVE Slashed(_)
Slashed(parts) ==
  IF Len(parts) = 1 THEN parts[1]
  ELSE Slashed(SubSeq(parts, 1, Len(parts) - 1)) \o "/" \o parts[Len(parts)]

YieldedAssets == {o \in YieldedObjs : o.cls # "DandisetMetadataFile"}

PathsAreRootRelative ==
  HasRoot =>
    \A o \in YieldedAssets :
      /\ StrictlyInside(o.filepath, dandiset_path)
      /\ o.path = Slashed(SubSeq(o.filepath, Len(dandiset_path) + 1,
                                 Len(o.filepath)))
      /\ o.path # "."

RootIsNoDandiFile ==
  HasRoot =>
    \A c \in {NoRef} \cup Descriptions :
      LET res == dandi_file(dandiset_path, dandiset_path, c)
      IN  /\ res.out = "raise"
          /\ res.exc = "ValueError: Dandi file path cannot equal Dandiset path"
          /\ ObjsAfter(res) = objs
          /\ FilesAfter(res) = dataset_files

ChildrenOf(d) == {q \in UniverseSet : fs[q] # "absent" /\ Parent(q) = d}

RootPopped == HasRoot /\ dandiset_path \in PoppedPaths

Terminated ==
  \/ pc = "raised"
  \/ pc = "done" /\ path_queue = << >>

C17_RunTerminates == <>Terminated

C17_Witness ==
  /\ pc = "done"
  /\ path_queue = << >>
  /\ \E k \in 1..Len(popped) :
       /\ fs[popped[k][1]] = "linkdir"
       /\ ChildrenOf(popped[k][1]) # {}
  /\ Len(popped) >= 4

(***************************************************************************)
(* C18: when no starting path is equal to, above or below another, each    *)
(* path is popped at most once and yielded at most once, and at most one   *)
(* description entity is constructed for each dataset_description.json     *)
(* (its file, popped later as a child of its directory, gives the entity   *)
(* bound before).                                                          *)
(***************************************************************************)
C18_EachPathOnce ==
  DisjointStarts =>
    /\ \A j, k \in 1..Len(popped) : j # k => popped[j][1] # popped[k][1]
    /\ \A j, k \in 1..Len(yielded) :
         j # k => objs[yielded[j]].filepath # objs[yielded[k]].filepath
    /\ \A a, b \in Descriptions : a # b => objs[a].filepath # objs[b].filepath

C18_Witness ==
  /\ pc = "done"
  /\ DisjointStarts
  /\ Len(paths) = 2
  /\ \E d \in Descriptions :
       /\ \E k \in 1..Len(popped) : popped[k] = <<objs[d].filepath, d>>
       /\ TimesYielded(d) = 1
       /\ dataset_files[d] # << >>

(***************************************************************************)
(* C19: the flags only filter the output: a run with any flag set pops the *)
(* same paths in the same order, constructs the same entities, leaves the  *)
(* same dataset_files collections and ends the same way as the run with    *)
(* both flags false on the same tree, paths and listing order, and what    *)
(* the run with both flags false yields is a subsequence of what it        *)
(* yields.                                                                 *)
(***************************************************************************)
RECURSIVE IsSubsequence(_, _)
IsSubsequence(a, b) ==
  IF a = << >> THEN TRUE
  ELSE IF b = << >> THEN FALSE
  ELSE IF Head(a) = Head(b) THEN IsSubsequence(Tail(a), Tail(b))
  ELSE IsSubsequence(a, Tail(b))

C19_FlagsOnlyFilter ==
  first.ran /\ pc \in {"done", "raised"} =>
    /\ pc = first.pc
    /\ err = first.err
    /\ popped = first.popped
    /\ objs = first.objs
    /\ dataset_files = first.dataset_files
    /\ IsSubsequence(first.yielded, yielded)

C19_Witness ==
  /\ first.ran
  /\ pc = "done"
  /\ allow_all
  /\ Len(first.yielded) >= 2
  /\ Len(yielded) >= 4
  /\ yielded[1] # first.yielded[1]
  /\ yielded[Len(yielded)] # first.yielded[Len(first.yielded)]

====
